---- MODULE Spec2Model ----
(***************************************************************************)
(* Model of the news ingestion pipeline of Project-c:                      *)
(*   - news/management/commands/fetch_news.py   (Command.handle)           *)
(*   - news/management/commands/summarize_news.py (Command.handle)         *)
(*   - news/news_fetcher/gdelt.py               (fetch_articles)           *)
(* Texts are sequences of one-character strings; timestamps are integer    *)
(* seconds; None for a timestamp or a confidence is NULL.                  *)
(***************************************************************************)
EXTENDS Integers, Sequences, FiniteSets, TLC

VARIABLES
    clock,        \* wall clock (timezone.now()), seconds
    pc,           \* position of the running management command
    now,          \* fetch_news: `now` read at the top of handle
    out,          \* fetch_news: the last status line written to stdout
    fetched,      \* fetch_news: the list `articles` read from the provider
    ranked,       \* fetch_news: the list `ranked` before it is sorted
    articles,     \* table Article: set of rows
    summaries,    \* table SummaryPage: set of rows
    nextId,       \* next primary key of Article
    nextSid,      \* next primary key of SummaryPage
    filtered,     \* fetch_news: the top-N list handed to the save loop
    idx,          \* fetch_news: position of the save loop in filtered
    seen,         \* fetch_news: urls already handled in this run
    saved,        \* fetch_news: counter of newly created articles
    calls,        \* fetch_news: external calls made by the current run, in order
    lastProceed,  \* start time of the last run that passed the gate, or NULL
    pending,      \* summarize_news: rows of pending_qs still to iterate
    fpc,          \* fetch_articles: position
    chunks,       \* fetch_articles: keyword_chunks
    cidx,         \* fetch_articles: index of the chunk being requested
    all_articles, \* fetch_articles: accumulated result
    seen_urls,    \* fetch_articles: urls already in all_articles
    chunkLog,     \* fetch_articles: one entry per request issued, in order
    xpc,          \* fetch_full_text: position
    xurl,         \* fetch_full_text: the url argument
    xpage,        \* fetch_full_text: what the target site gives to each strategy
    xtried,       \* fetch_full_text: the strategies invoked so far, in order
    xresult,      \* fetch_full_text: the returned string
    qpc,          \* build_gdelt_query: position of the caller
    qkeywords,    \* build_gdelt_query: the configured keyword list
    qarg,         \* build_gdelt_query: the list passed to the call
    qresult,      \* build_gdelt_query: the returned string
    passStart,    \* summarize_news: the SummaryPage table when the pass started
    passLog,      \* summarize_news: one entry per page handled, in order
    have,         \* HAVE_NEWSPAPER / HAVE_TRAFILATURA, set at import
    runs,         \* number of fetch_news invocations so far
    passes        \* number of summarize_news invocations so far

storeVars == <<articles, summaries, nextId, nextSid>>
runVars   == <<now, out, fetched, ranked, filtered, idx, seen, saved, calls,
              lastProceed>>
chunkVars == <<fpc, chunks, cidx, all_articles, seen_urls, chunkLog>>
extractVars == <<xpc, xurl, xpage, xtried, xresult>>
queryVars == <<qpc, qkeywords, qarg, qresult>>
passVars == <<passStart, passLog>>
vars == <<clock, pc, now, out, fetched, ranked, articles, summaries, nextId, nextSid, filtered, idx,
          seen, saved, calls, lastProceed, pending, fpc, chunks, cidx,
          all_articles, seen_urls, chunkLog, xpc, xurl, xpage, xtried, xresult,
          qpc, qkeywords, qarg, qresult, passStart, passLog, have, runs, passes>>

NULL == -1

(***************************************************************************)
(* Bounds of the model                                                     *)
(***************************************************************************)
MaxTime == 1      \* the clock stops advancing here
MaxResp == 2      \* longest article list in one provider response
MaxRuns == 2      \* fetch_news is invoked at most this often
MaxPasses == 2    \* summarize_news is invoked at most this often
MaxRank == 3      \* longest fetched list handed to the ranker on its own
MaxKeywords == 3  \* longest keyword list given to the query builder

(***************************************************************************)
(* Configuration (environment values of the modelled deployment)           *)
(***************************************************************************)
FETCH_INTERVAL == 1
TOP_N == 2
MIN_ARTICLE_LENGTH == 101
FULLTEXT_MIN_WORDS == 100
TITLE_MAX == 300
SUMMARY_MIN_CHARS == 300
CHUNK_KEYWORDS == 2

(***************************************************************************)
(* Text primitives (python str methods used by the code)                   *)
(***************************************************************************)
Min(a, b) == IF a <= b THEN a ELSE b

IsSpace(c) == c = " " \/ c = "\n" \/ c = "\t"

\* The text operators bind their argument (t \in {s}) so that it is
\* evaluated once.

\* str.strip(): drop the leading and the trailing whitespace
StripOf(s) ==
    IF \A i \in 1..Len(s) : IsSpace(s[i]) THEN <<>>
    ELSE LET lead  == CHOOSE k \in 0..Len(s) :
                        /\ ~IsSpace(s[k + 1])
                        /\ \A j \in 1..k : IsSpace(s[j])
             trail == CHOOSE k \in 0..Len(s) :
                        /\ ~IsSpace(s[Len(s) - k])
                        /\ \A j \in 0..(k - 1) : IsSpace(s[Len(s) - j])
         IN  SubSeq(s, lead + 1, Len(s) - trail)

Strip(s) == CHOOSE r \in {StripOf(t) : t \in {s}} : TRUE

UpperCase == <<"A", "C", "D", "G", "I", "L", "O", "P">>
LowerCase == <<"a", "c", "d", "g", "i", "l", "o", "p">>

LowerChar(c) ==
    IF \E k \in 1..Len(UpperCase) : UpperCase[k] = c
    THEN LowerCase[CHOOSE k \in 1..Len(UpperCase) : UpperCase[k] = c]
    ELSE c

\* str.lower()
Lower(s) == CHOOSE r \in {[i \in 1..Len(t) |-> LowerChar(t[i])] : t \in {s}} : TRUE

\* k in s  (substring test)
Contains(s, k) ==
    \E i \in 0..(Len(s) - Len(k)) : \A j \in 1..Len(k) : s[i + j] = k[j]

\* s[:n]
Prefix(s, n) == SubSeq(s, 1, Min(n, Len(s)))

\* s.startswith(p)
StartsWith(s, p) == Len(s) >= Len(p) /\ SubSeq(s, 1, Len(p)) = p

\* len(text.split()) if text else 0: the number of maximal runs of non-space
word_count(text) ==
    Cardinality(UNION {{i \in 1..Len(t) :
                          ~IsSpace(t[i]) /\ (i = 1 \/ IsSpace(t[i - 1]))}
                       : t \in {text}})

\* a text of n one-letter words separated by single spaces
Words(n) == [i \in 1..(IF n = 0 THEN 0 ELSE 2 * n - 1) |->
                IF i % 2 = 1 THEN "w" ELSE " "]

\* python `a or b` on strings
Or(a, b) == IF a # <<>> THEN a ELSE b

(***************************************************************************)
(* Module-level configuration of fetch_news.py                             *)
(***************************************************************************)
\* ECON_KEYWORDS: three of the default keywords
ECON_KEYWORDS == << <<"o", "i", "l">>, <<"g", "d", "p">>, <<"a", "i">> >>

GDELT == <<"g", "d", "e", "l", "t">>
HTTP  == <<"h", "t", "t", "p">>

(***************************************************************************)
(* The outside world: provider items, provider responses, article pages    *)
(***************************************************************************)
U1 == <<"h", "t", "t", "p", "1">>
U2 == <<"h", "t", "t", "p", "2">>

NoRaw == [title |-> <<>>, titleplain |-> <<>>, url |-> <<>>, urlapi |-> <<>>,
          snippet |-> <<>>, description |-> <<>>, seendate |-> <<>>,
          publishdate |-> <<>>, pubDate |-> <<>>, domain |-> <<>>,
          source |-> <<>>]

\* raw provider items; an absent key, None and "" are all <<>>
R1 == [NoRaw EXCEPT !.title = <<"O", "i", "l">>, !.url = U1,
                    !.snippet = <<" ">> \o Words(160) \o <<"\n">>,
                    !.seendate = <<"2", "4">>,
                    !.domain = <<"a">>]
R2 == [NoRaw EXCEPT !.titleplain = <<"g", "d", "p">>, !.urlapi = U1,
                    !.description = <<"a", "i">>, !.publishdate = <<"x">>,
                    !.source = <<"b">>]
R3 == [NoRaw EXCEPT !.title = <<"C", "a", "t">>, !.url = U2,
                    !.snippet = Words(100)]
R4 == [NoRaw EXCEPT !.title = <<"r", "a", "i", "n">>,
                    !.snippet = Words(100)]
R5 == [NoRaw EXCEPT !.title = <<"G", "D", "P">>, !.url = U2,
                    !.snippet = <<" ">> \o Words(100) \o <<"\n">>,
                    !.pubDate = <<"2", "5">>]

RAW == {R1, R2, R3, R4, R5}

SeqsUpTo(S, n) == UNION {[1..k -> S] : k \in 0..n}

\* a provider response: the items read before the request, the status check,
\* the body decoding or an item raised (err), or all items (err = FALSE)
RESPONSES == {[items |-> s, err |-> e] : s \in SeqsUpTo(RAW, MaxResp), e \in BOOLEAN}

\* outcome of one extraction library call / of the HTTP GET of the page
Exc == [kind |-> "exc"]
None == [kind |-> "none"]
Text(t) == [kind |-> "text", text |-> t]
Html(art, ps) == [kind |-> "html", hasArticle |-> TRUE, article |-> art, ps |-> ps]
HtmlNoArticle(ps) == [kind |-> "html", hasArticle |-> FALSE, article |-> <<>>, ps |-> ps]

\* what the target site gives to each strategy
PageDown == [np |-> Exc, tf |-> Exc, html |-> Exc]
PageNewspaper == [np |-> Text(Words(150)), tf |-> None, html |-> Exc]
PageShort == [np |-> Text(Words(100)), tf |-> Text(Words(110)), html |-> Exc]
PageHtml ==
    [np |-> Text(Words(50)), tf |-> None,
     html |-> Html(<<Words(60), <<>>, Words(45)>>,
                   <<Words(60), <<>>, Words(45), Words(9)>>)]

PageParagraphs ==
    [np |-> Exc, tf |-> Text(Words(99)),
     html |-> HtmlNoArticle(<<Words(60), Words(45)>>)]
PageThin ==
    [np |-> Text(<<>>), tf |-> Exc,
     html |-> Html(<<Words(60)>>, <<Words(60), Words(30)>>)]

PAGES == {PageDown, PageNewspaper, PageShort}

\* the pages met by a call of fetch_full_text on its own
ALL_PAGES == PAGES \cup {PageHtml, PageParagraphs, PageThin}

\* url arguments of fetch_full_text: missing or empty, not http, http
FTP1 == <<"f", "t", "p", "1">>
URLS == {<<>>, FTP1, U1}

\* which optional extraction packages imported (HAVE_NEWSPAPER, HAVE_TRAFILATURA)
HAVE_FLAGS == {[np |-> a, tf |-> b] : a \in BOOLEAN, b \in BOOLEAN}

(***************************************************************************)
(* Pure functions of fetch_news.py                                         *)
(***************************************************************************)
\* normalize_article
normalize_article(a) ==
    [title |-> Or(a.title, a.titleplain),
     url |-> Or(a.url, a.urlapi),
     snippet |-> Or(a.snippet, a.description),
     published_at_raw |-> Or(a.seendate, Or(a.publishdate, a.pubDate)),
     source |-> Or(a.domain, Or(a.source, GDELT))]

Digits == <<"0", "1", "2", "3", "4", "5", "6", "7", "8", "9">>
IsDigit(c) == \E d \in 1..10 : Digits[d] = c
DigitVal(c) == (CHOOSE d \in 1..10 : Digits[d] = c) - 1

RECURSIVE Decimal(_)
Decimal(s) == IF s = <<>> THEN 0
              ELSE 10 * Decimal(SubSeq(s, 1, Len(s) - 1)) + DigitVal(s[Len(s)])

\* dateutil parser.parse: a date string parses, anything else raises
ParserRaises(raw) == \E i \in 1..Len(raw) : ~IsDigit(raw[i])

\* parse_published_at
parse_published_at(raw) ==
    IF raw = <<>> THEN NULL
    ELSE IF ParserRaises(raw) THEN NULL
    ELSE Decimal(raw)

\* "\n\n".join(p for p in paragraphs if p)
RECURSIVE JoinParagraphs(_)
JoinParagraphs(ps) ==
    IF ps = <<>> THEN <<>>
    ELSE LET rest == JoinParagraphs(Tail(ps))
         IN  IF Head(ps) = <<>> THEN rest
             ELSE IF rest = <<>> THEN Head(ps)
             ELSE Head(ps) \o <<"\n", "\n">> \o rest

\* step 1 of fetch_full_text: newspaper3k
TryNewspaper(hv, page) ==
    IF hv.np /\ page.np.kind = "text"
          /\ word_count(Strip(page.np.text)) >= FULLTEXT_MIN_WORDS
    THEN Strip(page.np.text) ELSE <<>>

\* step 2 of fetch_full_text: trafilatura
TryTrafilatura(hv, page) ==
    IF hv.tf /\ page.tf.kind = "text"
          /\ word_count(page.tf.text) >= FULLTEXT_MIN_WORDS
    THEN Strip(page.tf.text) ELSE <<>>

\* step 3 of fetch_full_text, the <article> container
TryArticle(page) ==
    IF page.html.kind # "html" \/ ~page.html.hasArticle THEN <<>>
    ELSE LET txt == JoinParagraphs(page.html.article)
         IN  IF word_count(txt) >= FULLTEXT_MIN_WORDS THEN Strip(txt) ELSE <<>>

\* step 3 of fetch_full_text: <article> paragraphs, then all paragraphs
TryHtml(page) ==
    IF page.html.kind # "html" THEN <<>>
    ELSE LET txt == JoinParagraphs(page.html.article)
             joined == JoinParagraphs(page.html.ps)
         IN  IF page.html.hasArticle /\ word_count(txt) >= FULLTEXT_MIN_WORDS
             THEN Strip(txt)
             ELSE IF word_count(joined) >= FULLTEXT_MIN_WORDS THEN Strip(joined)
             ELSE <<>>

\* if not url or not url.startswith("http")
InvalidUrl(url) == url = <<>> \/ ~StartsWith(url, HTTP)

\* fetch_full_text(url): a returned text has >= 100 words, so <<>> means
\* that the strategy did not return
fetch_full_text(url, hv, page) ==
    IF InvalidUrl(url) THEN <<>>
    ELSE LET first(a) == IF a # <<>> THEN a
                         ELSE LET second(b) == IF b # <<>> THEN b ELSE TryHtml(page)
                              IN  second(TryTrafilatura(hv, page))
         IN  first(TryNewspaper(hv, page))

(***************************************************************************)
(* The store: Article and SummaryPage tables and the ORM calls on them     *)
(***************************************************************************)
MODEL_NAME == <<"llama3.1:8b">>
NO_TEXT_SUMMARY == <<"Main topic: Insufficient article content">>
FAILED_SUMMARY == <<"Main topic: AI summarization failed">>
AI_RESPONSE == <<"- Main topic of the news">>

\* Article.objects.order_by("-fetched_at").first()
LastFetched(arts) ==
    CHOOSE r \in arts : \A q \in arts : q.fetched_at <= r.fetched_at

\* the caching test of handle: is the run to be skipped at time t?
GateClosedMutant(arts, t) ==
    arts # {} /\ t - LastFetched(arts).fetched_at <= FETCH_INTERVAL

GateClosed(arts, t) ==
    arts # {} /\ t - LastFetched(arts).fetched_at < FETCH_INTERVAL

\* Article.objects.update_or_create(url=url, defaults=d): the new table.
\* fetched_at is auto_now_add: written by the insert only.
ArticleUpsertMutant(arts, url, d, t, id) ==
    LET match == {r \in arts : r.url = url}
    IN  IF match = {}
        THEN arts \cup {[id |-> id, url |-> url, source |-> d.source,
                         title |-> d.title, snippet |-> d.snippet,
                         published_at |-> d.published_at, fetched_at |-> t]}
        ELSE (arts \ match) \cup
             {[r EXCEPT !.source = d.source, !.title = d.title,
                        !.snippet = d.snippet, !.published_at = d.published_at,
                        !.fetched_at = t] : r \in match}

ArticleUpsert(arts, url, d, t, id) ==
    LET match == {r \in arts : r.url = url}
    IN  IF match = {}
        THEN arts \cup {[id |-> id, url |-> url, source |-> d.source,
                         title |-> d.title, snippet |-> d.snippet,
                         published_at |-> d.published_at, fetched_at |-> t]}
        ELSE (arts \ match) \cup
             {[r EXCEPT !.source = d.source, !.title = d.title,
                        !.snippet = d.snippet, !.published_at = d.published_at]
                 : r \in match}

\* the `created` flag of Article.objects.update_or_create
ArticleCreated(arts, url) == {r \in arts : r.url = url} = {}

\* the article_obj returned by Article.objects.update_or_create
ArticleOf(arts, url) == CHOOSE r \in arts : r.url = url

\* SummaryPage.objects.update_or_create(article=article_obj, defaults=d)
SummaryUpsertMutant(sums, aid, d, sid) ==
    {[id |-> sid, article |-> aid, hero_image |-> d.hero_image,
      short_preview |-> d.short_preview, ai_summary |-> d.ai_summary,
      summarized_at |-> d.summarized_at, model_version |-> d.model_version,
      confidence |-> d.confidence]}

SummaryUpsert(sums, aid, d, sid) ==
    LET match == {r \in sums : r.article = aid}
    IN  IF match = {}
        THEN sums \cup {[id |-> sid, article |-> aid, hero_image |-> d.hero_image,
                         short_preview |-> d.short_preview,
                         ai_summary |-> d.ai_summary,
                         summarized_at |-> d.summarized_at,
                         model_version |-> d.model_version,
                         confidence |-> d.confidence]}
        ELSE (sums \ match) \cup
             {[r EXCEPT !.hero_image = d.hero_image,
                        !.short_preview = d.short_preview,
                        !.ai_summary = d.ai_summary,
                        !.summarized_at = d.summarized_at,
                        !.model_version = d.model_version,
                        !.confidence = d.confidence] : r \in match}

SummaryCreated(sums, aid) == {r \in sums : r.article = aid} = {}

\* defaults of the SummaryPage upsert of handle
SummaryDefaults(snippet, title) ==
    [hero_image |-> <<>>, short_preview |-> Prefix(Or(snippet, title), 200),
     ai_summary |-> snippet, summarized_at |-> NULL, model_version |-> <<>>,
     confidence |-> NULL]

(***************************************************************************)
(* fetch_news: Command.handle                                              *)
(***************************************************************************)
Call(op, url, text, ok) == [op |-> op, url |-> url, text |-> text, ok |-> ok]

\* the keyword test of the filter loop
KeywordMatch(a) ==
    \E combined \in {Lower(a.title \o <<" ">> \o a.snippet)} :
       \E k \in 1..Len(ECON_KEYWORDS) : Contains(combined, ECON_KEYWORDS[k])

Score(a) == word_count(a.snippet)

Entry(a) == [data |-> a, score |-> Score(a)]

\* `ranked` before it is sorted: the matching records, or all when none matches
RankedNoFallback(arts) ==
    LET kept == SelectSeq(arts, KeywordMatch)
    IN  [i \in 1..Len(kept) |-> Entry(kept[i])]

Ranked(arts) ==
    LET kept == SelectSeq(arts, KeywordMatch)
    IN  IF kept = <<>> THEN [i \in 1..Len(arts) |-> Entry(arts[i])]
        ELSE [i \in 1..Len(kept) |-> Entry(kept[i])]

\* ranked.sort(key=score, reverse=True): stable, descending
SortByScoreMutant(rs) ==
    LET before(i, j) == rs[i].score > rs[j].score
                        \/ (rs[i].score = rs[j].score /\ i > j)
        rank(i) == 1 + Cardinality({j \in 1..Len(rs) : before(j, i)})
    IN  [k \in 1..Len(rs) |-> rs[CHOOSE i \in 1..Len(rs) : rank(i) = k]]

SortByScore(rs) ==
    LET before(i, j) == rs[i].score > rs[j].score
                        \/ (rs[i].score = rs[j].score /\ i < j)
        rank(i) == 1 + Cardinality({j \in 1..Len(rs) : before(j, i)})
    IN  [k \in 1..Len(rs) |-> rs[CHOOSE i \in 1..Len(rs) : rank(i) = k]]

\* filtered = [r["data"] for r in ranked[:TOP_N]]
Filtered(rs) ==
    LET top == Prefix(SortByScore(rs), TOP_N)
    IN  [i \in 1..Len(top) |-> top[i].data]

\* the articles list built from a provider response
Normalized(resp) == [i \in 1..Len(resp.items) |-> normalize_article(resp.items[i])]

\* the hard filter before the writes
PassesLengthGateMutant(snippet) == snippet # <<>>

PassesLengthGate(snippet) ==
    snippet # <<>> /\ word_count(snippet) >= MIN_ARTICLE_LENGTH

\* where the save loop goes after a candidate; raised: a store write raised
LoopNextMutant(i, n, raised) == IF raised THEN n + 1 ELSE i + 1

LoopNext(i, n, raised) == i + 1

\* the one request of handle to the provider, with the query of all keywords
ProviderCall(ok) ==
    [op |-> "provider", url |-> <<>>, text |-> <<>>, ok |-> ok,
     keywords |-> ECON_KEYWORDS]

\* if not articles: return -- where handle goes after the provider request
ProviderNextMutant(got) == "filter"

ProviderNext(got) == IF got = <<>> THEN "idle" ELSE "filter"

\* if not url or url in seen: continue
SkipCandidateMutant(url, seenUrls) == url = <<>>

SkipCandidate(url, seenUrls) == url = <<>> \/ url \in seenUrls

\* if word_count(snippet) < MIN_ARTICLE_LENGTH: try the full article
NeedsExtractionMutant(provided_snippet) == TRUE

NeedsExtraction(provided_snippet) ==
    word_count(provided_snippet) < MIN_ARTICLE_LENGTH

\* the calls of the extraction branch: fetch_full_text, then time.sleep
ExtractionCallsMutant(url, fetched_text) ==
    IF fetched_text = <<>>
    THEN <<Call("extract", url, fetched_text, TRUE), Call("sleep", url, <<>>, TRUE)>>
    ELSE <<Call("extract", url, fetched_text, TRUE)>>

ExtractionCalls(url, fetched_text) ==
    <<Call("extract", url, fetched_text, TRUE), Call("sleep", url, <<>>, TRUE)>>

\* now = timezone.now()
Invoke ==
    /\ pc = "idle"
    /\ runs < MaxRuns
    /\ runs' = runs + 1
    /\ pc' = "gate"
    /\ now' = clock
    /\ calls' = <<>>
    /\ UNCHANGED <<clock, out, fetched, ranked, storeVars, filtered, idx, seen,
                   saved, lastProceed, pending, chunkVars, extractVars, queryVars, passVars, have, passes>>

\* 1) caching: skip if last fetch was recent
Gate ==
    /\ pc = "gate"
    /\ IF GateClosed(articles, now)
       THEN /\ pc' = "idle"
            /\ out' = "Skipping fetch"
            /\ now' = 0
            /\ UNCHANGED lastProceed
       ELSE /\ pc' = "fetch"
            /\ out' = "Fetching list from GDELT..."
            /\ lastProceed' = now
            /\ UNCHANGED now
    /\ UNCHANGED <<clock, fetched, ranked, storeVars, filtered, idx, seen, saved,
                   calls, pending, chunkVars, extractVars, queryVars, passVars, have, runs, passes>>

\* 2) fetch from GDELT
ProviderFetch ==
    /\ pc = "fetch"
    /\ \E resp \in RESPONSES :
       \E got \in {Normalized(resp)} :
          /\ calls' = Append(calls, ProviderCall(~resp.err))
          /\ pc' = ProviderNext(got)
          /\ IF got = <<>>
             THEN /\ out' = "No articles returned by GDELT."
                  /\ now' = 0
                  /\ UNCHANGED fetched
             ELSE /\ UNCHANGED out
                  /\ fetched' = got
                  /\ UNCHANGED now
    /\ UNCHANGED <<clock, ranked, filtered, idx, seen, saved, storeVars, lastProceed,
                   pending, chunkVars, extractVars, queryVars, passVars, have, runs, passes>>

\* 3) filter by keyword, with the fallback to the full list
FilterStep ==
    /\ pc = "filter"
    /\ pc' = "sort"
    /\ ranked' = Ranked(fetched)
    /\ UNCHANGED <<clock, now, out, fetched, filtered, idx, seen, saved, calls,
                   storeVars, lastProceed, pending, chunkVars, extractVars, queryVars, passVars, have, runs, passes>>

\* sort by snippet length, take the top N, enter the save loop
SortStep ==
    /\ pc = "sort"
    /\ pc' = "save"
    /\ filtered' = Filtered(ranked)
    /\ idx' = 1
    /\ seen' = {}
    /\ saved' = 0
    /\ fetched' = <<>>
    /\ UNCHANGED <<clock, now, out, ranked, calls, storeVars, lastProceed, pending,
                   chunkVars, extractVars, queryVars, passVars, have, runs, passes>>

\* the writes of one candidate that passed the hard filter; aRaises, sRaises:
\* the Article write / the SummaryPage write raises
WriteItem(item, url, title, snippet, calls1, aRaises, sRaises) ==
    LET defaults == [source |-> Or(item.source, GDELT), title |-> title,
                     snippet |-> snippet,
                     published_at |-> parse_published_at(item.published_at_raw)]
        created == ArticleCreated(articles, url)
        arts1 == ArticleUpsert(articles, url, defaults, clock, nextId)
        aid == ArticleOf(arts1, url).id
    IN  IF aRaises
        THEN /\ idx' = LoopNext(idx, Len(filtered), TRUE)
             /\ calls' = Append(calls1, Call("article", url, snippet, FALSE))
             /\ out' = "Failed saving"
             /\ UNCHANGED <<storeVars, saved>>
        ELSE IF sRaises
        THEN /\ idx' = LoopNext(idx, Len(filtered), TRUE)
             /\ calls' = calls1 \o <<Call("article", url, snippet, TRUE),
                                     Call("summary", url, snippet, FALSE)>>
             /\ articles' = arts1
             /\ nextId' = IF created THEN nextId + 1 ELSE nextId
             /\ out' = "Failed saving"
             /\ UNCHANGED <<summaries, nextSid, saved>>
        ELSE /\ idx' = LoopNext(idx, Len(filtered), FALSE)
             /\ calls' = calls1 \o <<Call("article", url, snippet, TRUE),
                                     Call("summary", url, snippet, TRUE)>>
             /\ articles' = arts1
             /\ nextId' = IF created THEN nextId + 1 ELSE nextId
             /\ summaries' = SummaryUpsert(summaries, aid,
                                SummaryDefaults(snippet, title), nextSid)
             /\ nextSid' = IF SummaryCreated(summaries, aid)
                           THEN nextSid + 1 ELSE nextSid
             /\ saved' = IF created THEN saved + 1 ELSE saved
             /\ UNCHANGED out

\* the candidate after the dedupe test: extraction, pause, hard filter, writes
ProcessItem(item, url, page) ==
    \E provided_snippet \in {Strip(item.snippet)} :
    \E short \in {NeedsExtraction(provided_snippet)} :
    \E fetched_text \in {IF short THEN fetch_full_text(url, have, page) ELSE <<>>} :
    \E snippet \in {IF short /\ word_count(fetched_text) >= MIN_ARTICLE_LENGTH
                    THEN fetched_text ELSE provided_snippet} :
    \E calls1 \in {IF short THEN calls \o ExtractionCalls(url, fetched_text)
                   ELSE calls} :
        IF ~PassesLengthGate(snippet)
        THEN /\ idx' = idx + 1
             /\ calls' = calls1
             /\ out' = "SKIPPED saving article"
             /\ UNCHANGED <<storeVars, saved>>
        ELSE \E aRaises \in BOOLEAN, sRaises \in BOOLEAN :
                WriteItem(item, url, Prefix(item.title, TITLE_MAX), snippet,
                          calls1, aRaises, sRaises)

\* 4) one iteration of the save loop
SaveItem ==
    /\ pc = "save"
    /\ idx <= Len(filtered)
    /\ LET item == filtered[idx]
           url == item.url
       IN  IF SkipCandidate(url, seen)
           THEN /\ idx' = idx + 1
                /\ UNCHANGED <<storeVars, seen, saved, calls, out>>
           ELSE /\ seen' = seen \cup {url}
                /\ \E page \in PAGES : ProcessItem(item, url, page)
    /\ ranked' = <<>>
    /\ UNCHANGED <<clock, pc, now, fetched, filtered, lastProceed, pending,
                   chunkVars, extractVars, queryVars, passVars, have, runs, passes>>

\* "Fetch complete": the loop is over and handle returns
RunEnd ==
    /\ pc = "save"
    /\ idx > Len(filtered)
    /\ pc' = "idle"
    /\ out' = "Fetch complete"
    /\ now' = 0
    /\ filtered' = <<>>
    /\ idx' = 1
    /\ seen' = {}
    /\ saved' = 0
    /\ calls' = <<>>
    /\ ranked' = <<>>
    /\ UNCHANGED <<clock, fetched, storeVars, lastProceed, pending,
                   chunkVars, extractVars, queryVars, passVars, have, runs, passes>>

\* time passes; the commands read the clock when they are invoked and when
\* they write a row, so only the ticks before those reads are distinguished
Tick ==
    /\ pc \in {"idle", "save", "summarize"}
    /\ clock < MaxTime
    /\ clock' = clock + 1
    /\ UNCHANGED <<pc, runVars, storeVars, pending, chunkVars, extractVars, queryVars, passVars, have, runs, passes>>

(***************************************************************************)
(* summarize_news: Command.handle                                          *)
(***************************************************************************)
\* outcomes of generate_summary(text): a response, an empty response, an exception
MODEL_OUTCOMES == {"response", "empty", "raises"}

\* the ids of a set of rows in ascending order
RECURSIVE IdsAscending(_)
IdsAscending(rows) ==
    IF rows = {} THEN <<>>
    ELSE LET lo == CHOOSE r \in rows : \A q \in rows : r.id <= q.id
         IN  <<lo.id>> \o IdsAscending(rows \ {lo})

\* pending_qs = SummaryPage.objects.filter(summarized_at__isnull=True)
PendingPages(sums) == {r \in sums : r.summarized_at = NULL}

\* the row written by summary_page.save() on each of the three paths
SummarizedMutant(page, text, outcome, t) ==
    IF Len(text) < SUMMARY_MIN_CHARS
    THEN [page EXCEPT !.ai_summary = NO_TEXT_SUMMARY, !.summarized_at = t,
                      !.model_version = MODEL_NAME, !.confidence = 20]
    ELSE IF outcome = "response"
    THEN [page EXCEPT !.ai_summary = AI_RESPONSE, !.summarized_at = t,
                      !.model_version = MODEL_NAME, !.confidence = 85]
    ELSE [page EXCEPT !.ai_summary = FAILED_SUMMARY,
                      !.model_version = MODEL_NAME, !.confidence = 10]

Summarized(page, text, outcome, t) ==
    IF Len(text) < SUMMARY_MIN_CHARS
    THEN [page EXCEPT !.ai_summary = NO_TEXT_SUMMARY, !.summarized_at = t,
                      !.model_version = MODEL_NAME, !.confidence = 20]
    ELSE IF outcome = "response"
    THEN [page EXCEPT !.ai_summary = AI_RESPONSE, !.summarized_at = t,
                      !.model_version = MODEL_NAME, !.confidence = 85]
    ELSE [page EXCEPT !.ai_summary = FAILED_SUMMARY, !.summarized_at = t,
                      !.model_version = MODEL_NAME, !.confidence = 10]

\* the line written to stdout for the page on each of the three paths
StatusLine(text, outcome) ==
    IF Len(text) < SUMMARY_MIN_CHARS THEN "SKIPPED! (short content"
    ELSE IF outcome = "response" THEN "Summary saved"
    ELSE "Failed"

SummarizeStart ==
    /\ pc = "idle"
    /\ passes < MaxPasses
    /\ passes' = passes + 1
    /\ IF PendingPages(summaries) = {}
       THEN UNCHANGED <<pc, pending>>
       ELSE /\ pc' = "summarize"
            /\ pending' = IdsAscending(PendingPages(summaries))
    /\ passStart' = summaries
    /\ passLog' = <<>>
    /\ UNCHANGED <<clock, runVars, storeVars, chunkVars, extractVars, queryVars, have, runs>>

SummarizePage ==
    /\ pc = "summarize"
    /\ pending # <<>>
    /\ \E outcome \in MODEL_OUTCOMES :
          LET page == CHOOSE r \in summaries : r.id = Head(pending)
              article == CHOOSE a \in articles : a.id = page.article
              text == Strip(article.snippet)
          IN  /\ summaries' = (summaries \ {page})
                                 \cup {Summarized(page, text, outcome, clock)}
              /\ passLog' = Append(passLog, [id |-> page.id,
                                             line |-> StatusLine(text, outcome)])
    /\ pending' = Tail(pending)
    /\ UNCHANGED <<clock, pc, runVars, articles, nextId, nextSid, chunkVars,
                   extractVars, queryVars, passStart, have, runs, passes>>

SummarizeEnd ==
    /\ pc = "summarize"
    /\ pending = <<>>
    /\ pc' = "idle"
    /\ UNCHANGED <<clock, runVars, storeVars, pending, chunkVars, extractVars, queryVars, passVars, have, runs, passes>>

(***************************************************************************)
(* news_fetcher/gdelt.py: chunk_list and fetch_articles                    *)
(***************************************************************************)
\* list(chunk_list(lst, n))
chunk_list(lst, n) ==
    [c \in 1..((Len(lst) + n - 1) \div n) |->
        SubSeq(lst, (c - 1) * n + 1, Min(c * n, Len(lst)))]

\* the loop over raw_list: append the records whose url was not seen yet
RECURSIVE MergeChunkMutant(_, _, _)
MergeChunkMutant(all, seenUrls, items) ==
    IF items = <<>> THEN [all |-> all, seen |-> seenUrls]
    ELSE LET norm == normalize_article(Head(items))
         IN  MergeChunkMutant(
                 SelectSeq(all, LAMBDA r : r.url # norm.url) \o <<norm>>,
                 seenUrls \cup {norm.url}, Tail(items))

RECURSIVE MergeChunk(_, _, _)
MergeChunk(all, seenUrls, items) ==
    IF items = <<>> THEN [all |-> all, seen |-> seenUrls]
    ELSE LET norm == normalize_article(Head(items))
         IN  IF norm.url \notin seenUrls
             THEN MergeChunk(Append(all, norm), seenUrls \cup {norm.url}, Tail(items))
             ELSE MergeChunk(all, seenUrls, Tail(items))

\* the chunk requested after chunk c of n; raised: the request of c raised
NextChunkMutant(c, n, raised) == IF raised THEN n + 1 ELSE c + 1

NextChunk(c, n, raised) == c + 1

FetchArticlesStart ==
    /\ fpc = "idle"
    /\ fpc' = "loop"
    /\ chunks' = chunk_list(ECON_KEYWORDS, CHUNK_KEYWORDS)
    /\ cidx' = 1
    /\ all_articles' = <<>>
    /\ seen_urls' = {}
    /\ chunkLog' = <<>>
    /\ UNCHANGED <<clock, pc, runVars, storeVars, pending,
                   extractVars, queryVars, passVars, have, runs, passes>>

\* one iteration of the loop over keyword_chunks: one request
ChunkRequest ==
    /\ fpc = "loop"
    /\ cidx <= Len(chunks)
    /\ \E resp \in RESPONSES :
          IF chunks[cidx] = <<>>
          THEN /\ cidx' = cidx + 1
               /\ UNCHANGED <<all_articles, seen_urls, chunkLog>>
          ELSE \E merged \in {MergeChunk(all_articles, seen_urls, resp.items)} :
               /\ all_articles' = merged.all
               /\ seen_urls' = merged.seen
               /\ chunkLog' = Append(chunkLog, [chunk |-> chunks[cidx], resp |-> resp])
               /\ cidx' = NextChunk(cidx, Len(chunks), resp.err)
    /\ UNCHANGED <<fpc, chunks, clock, pc, runVars, storeVars, pending,
                   extractVars, queryVars, passVars, have, runs, passes>>

\* return all_articles
FetchArticlesReturn ==
    /\ fpc = "loop"
    /\ cidx > Len(chunks)
    /\ fpc' = "returned"
    /\ UNCHANGED <<chunks, cidx, all_articles, seen_urls, chunkLog,
                   clock, pc, runVars, storeVars, pending,
                   extractVars, queryVars, passVars, have, runs, passes>>

(***************************************************************************)
(* fetch_news.py: fetch_full_text, strategy by strategy                    *)
(***************************************************************************)
\* the strategy tried after strategy s gave no text; "returned": return ""
NextStrategyMutant(s) ==
    IF s = "newspaper" THEN "html"
    ELSE IF s = "html" THEN "trafilatura"
    ELSE "returned"

NextStrategy(s) ==
    IF s = "newspaper" THEN "trafilatura"
    ELSE IF s = "trafilatura" THEN "html"
    ELSE "returned"

\* except Exception: pass -- where the function goes on after a strategy raised
AfterExceptionMutant(next) == "raised"

AfterException(next) == next

\* the call and the url test
FullTextCall ==
    /\ xpc = "idle"
    /\ \E url \in URLS, page \in ALL_PAGES :
          /\ xurl' = url
          /\ xpage' = page
          /\ xpc' = IF InvalidUrl(url) THEN "returned" ELSE "newspaper"
    /\ UNCHANGED <<xtried, xresult>>
    /\ UNCHANGED <<clock, pc, runVars, storeVars, pending, chunkVars, queryVars, passVars, have, runs, passes>>

\* 1) newspaper3k
StepNewspaper ==
    /\ xpc = "newspaper"
    /\ IF ~have.np
       THEN /\ xpc' = NextStrategy("newspaper")
            /\ UNCHANGED <<xtried, xresult>>
       ELSE /\ xtried' = Append(xtried, "newspaper")
            /\ \E text \in {TryNewspaper(have, xpage)} :
                  IF xpage.np.kind = "exc"
                  THEN /\ xpc' = AfterException(NextStrategy("newspaper"))
                       /\ UNCHANGED xresult
                  ELSE IF text # <<>>
                  THEN /\ xpc' = "returned"
                       /\ xresult' = text
                  ELSE /\ xpc' = NextStrategy("newspaper")
                       /\ UNCHANGED xresult
    /\ UNCHANGED <<xurl, xpage>>
    /\ UNCHANGED <<clock, pc, runVars, storeVars, pending, chunkVars, queryVars, passVars, have, runs, passes>>

\* 2) trafilatura
StepTrafilatura ==
    /\ xpc = "trafilatura"
    /\ IF ~have.tf
       THEN /\ xpc' = NextStrategy("trafilatura")
            /\ UNCHANGED <<xtried, xresult>>
       ELSE /\ xtried' = Append(xtried, "trafilatura")
            /\ \E text \in {TryTrafilatura(have, xpage)} :
                  IF xpage.tf.kind = "exc"
                  THEN /\ xpc' = AfterException(NextStrategy("trafilatura"))
                       /\ UNCHANGED xresult
                  ELSE IF text # <<>>
                  THEN /\ xpc' = "returned"
                       /\ xresult' = text
                  ELSE /\ xpc' = NextStrategy("trafilatura")
                       /\ UNCHANGED xresult
    /\ UNCHANGED <<xurl, xpage>>
    /\ UNCHANGED <<clock, pc, runVars, storeVars, pending, chunkVars, queryVars, passVars, have, runs, passes>>

\* 3) the GET of the page, its <article> paragraphs, then all its paragraphs
StepHtml ==
    /\ xpc = "html"
    /\ IF xpage.html.kind = "exc"
       THEN /\ xtried' = Append(xtried, "html")
            /\ xpc' = AfterException(NextStrategy("html"))
            /\ UNCHANGED xresult
       ELSE \E art \in {TryArticle(xpage)}, text \in {TryHtml(xpage)} :
            /\ xtried' = xtried \o <<"html">>
                            \o (IF xpage.html.hasArticle THEN <<"article">> ELSE <<>>)
                            \o (IF art = <<>> THEN <<"paragraphs">> ELSE <<>>)
            /\ IF text # <<>>
               THEN /\ xpc' = "returned"
                    /\ xresult' = text
               ELSE /\ xpc' = NextStrategy("html")
                    /\ UNCHANGED xresult
    /\ UNCHANGED <<xurl, xpage>>
    /\ UNCHANGED <<clock, pc, runVars, storeVars, pending, chunkVars, queryVars, passVars, have, runs, passes>>

(***************************************************************************)
(* fetch_news.py: build_gdelt_query                                        *)
(***************************************************************************)
\* keywords as the configuration can hold them: stripped, not empty, with
\* inner spaces and with characters that are reserved in a URL
QUERY_KEYWORDS == { <<"a", "i">>, <<"o", " ", "p">>, <<"r", "&", "d">>,
                    <<"(", "x", ")">>, <<"5", "%">>, <<"a", "+", "b">> }

\* urllib.parse: the characters quote never encodes
ALWAYS_SAFE == {"a", "b", "d", "i", "o", "p", "r", "x", "O", "R",
                "0", "1", "2", "3", "4", "5", "6", "7", "8", "9",
                "_", ".", "-", "~"}

\* urllib.parse.quote on one character outside the safe set: "%" and the
\* two upper-case hexadecimal digits of its byte
PERCENT == [c \in {" ", "%", "&", "(", ")", "+", "/"} |->
              CASE c = " " -> <<"%", "2", "0">>
                [] c = "%" -> <<"%", "2", "5">>
                [] c = "&" -> <<"%", "2", "6">>
                [] c = "(" -> <<"%", "2", "8">>
                [] c = ")" -> <<"%", "2", "9">>
                [] c = "+" -> <<"%", "2", "B">>
                [] c = "/" -> <<"%", "2", "F">>]

\* urllib.parse.quote(s, safe): every character in place, encoded or kept
RECURSIVE quote(_, _)
quote(s, safe) ==
    IF s = <<>> THEN <<>>
    ELSE (IF Head(s) \in ALWAYS_SAFE \cup safe THEN <<Head(s)>>
          ELSE PERCENT[Head(s)]) \o quote(Tail(s), safe)

\* str.replace(" ", "+")
ReplaceSpace(s) == [i \in 1..Len(s) |-> IF s[i] = " " THEN "+" ELSE s[i]]

\* urllib.parse.quote_plus(k): quote with the space kept, then space to "+"
quote_plusMutant(k) == k

quote_plus(k) == ReplaceSpace(quote(k, {" "}))

\* " OR ".join(parts)
RECURSIVE JoinOr(_)
JoinOr(parts) ==
    IF parts = <<>> THEN <<>>
    ELSE IF Len(parts) = 1 THEN parts[1]
    ELSE parts[1] \o <<" ", "O", "R", " ">> \o JoinOr(Tail(parts))

build_gdelt_query(keywords) ==
    <<"(">> \o JoinOr([i \in 1..Len(keywords) |-> quote_plus(keywords[i])])
            \o <<")">>

\* Command.handle: the query parameter is built from the whole keyword list
BuildQuery ==
    /\ qpc = "idle"
    /\ qarg' = qkeywords
    /\ qresult' = build_gdelt_query(qkeywords)
    /\ qpc' = "built"
    /\ UNCHANGED <<clock, pc, runVars, storeVars, pending, chunkVars,
                   extractVars, qkeywords, passVars, have, runs, passes>>

\* fetch_articles: the query parameter is built from one chunk of the list
BuildChunkQuery ==
    /\ qpc = "idle"
    /\ \E kc \in {chunk_list(qkeywords, CHUNK_KEYWORDS)} :
         \E c \in 1..Len(kc) :
            /\ qarg' = kc[c]
            /\ qresult' = build_gdelt_query(kc[c])
    /\ qpc' = "built"
    /\ UNCHANGED <<clock, pc, runVars, storeVars, pending, chunkVars,
                   extractVars, qkeywords, passVars, have, runs, passes>>

(***************************************************************************)
(* The ingestion and summarization commands over one store                 *)
(***************************************************************************)
ExtractIdle ==
    /\ xpc = "idle"
    /\ xurl = <<>>
    /\ xpage = PageDown
    /\ xtried = <<>>
    /\ xresult = <<>>

QueryIdle ==
    /\ qpc = "idle"
    /\ qkeywords = <<>>
    /\ qarg = <<>>
    /\ qresult = <<>>

PassIdle ==
    /\ passStart = {}
    /\ passLog = <<>>

ChunkIdle ==
    /\ fpc = "idle"
    /\ chunks = <<>>
    /\ cidx = 1
    /\ all_articles = <<>>
    /\ seen_urls = {}
    /\ chunkLog = <<>>

InitStore ==
    /\ clock = 0
    /\ pc = "idle"
    /\ now = 0
    /\ out = ""
    /\ fetched = <<>>
    /\ ranked = <<>>
    /\ articles = {}
    /\ summaries = {}
    /\ nextId = 1
    /\ nextSid = 1
    /\ filtered = <<>>
    /\ idx = 1
    /\ seen = {}
    /\ saved = 0
    /\ calls = <<>>
    /\ lastProceed = NULL
    /\ pending = <<>>
    /\ ChunkIdle
    /\ ExtractIdle
    /\ PassIdle
    /\ runs = 0
    /\ passes = 0

\* both optional extraction packages are installed
Init ==
    /\ InitStore
    /\ QueryIdle
    /\ have = [np |-> TRUE, tf |-> TRUE]

\* any combination of the optional extraction packages
InitExtract ==
    /\ InitStore
    /\ QueryIdle
    /\ have \in HAVE_FLAGS

\* any keyword list of the configuration, before a query is built from it
InitQuery ==
    /\ InitStore
    /\ have = [np |-> TRUE, tf |-> TRUE]
    /\ qpc = "idle"
    /\ qkeywords \in SeqsUpTo(QUERY_KEYWORDS, MaxKeywords)
    /\ qarg = <<>>
    /\ qresult = <<>>

Next ==
    \/ Invoke
    \/ Gate
    \/ ProviderFetch
    \/ FilterStep
    \/ SortStep
    \/ SaveItem
    \/ RunEnd
    \/ SummarizeStart
    \/ SummarizePage
    \/ SummarizeEnd
    \/ Tick

Spec == Init /\ [][Next]_vars

\* the runs of fetch_news alone
NextIngest ==
    \/ Invoke
    \/ Gate
    \/ ProviderFetch
    \/ FilterStep
    \/ SortStep
    \/ SaveItem
    \/ RunEnd
    \/ Tick

SpecIngest == Init /\ [][NextIngest]_vars

NextFetch ==
    \/ FetchArticlesStart
    \/ ChunkRequest
    \/ FetchArticlesReturn

\* one call of fetch_articles
SpecFetch == Init /\ [][NextFetch]_vars

\* the first run of fetch_news after its provider request returned a list of
\* at most MaxRank records
InitRank ==
    /\ clock = 0
    /\ pc = "filter"
    /\ now = 0
    /\ out = "Fetching list from GDELT..."
    /\ fetched \in {Normalized([items |-> items, err |-> FALSE]) :
                     items \in SeqsUpTo(RAW, MaxRank) \ {<<>>}}
    /\ ranked = <<>>
    /\ articles = {}
    /\ summaries = {}
    /\ nextId = 1
    /\ nextSid = 1
    /\ filtered = <<>>
    /\ idx = 1
    /\ seen = {}
    /\ saved = 0
    /\ calls = <<ProviderCall(TRUE)>>
    /\ lastProceed = 0
    /\ pending = <<>>
    /\ ChunkIdle
    /\ ExtractIdle
    /\ QueryIdle
    /\ PassIdle
    /\ have = [np |-> TRUE, tf |-> TRUE]
    /\ runs = 1
    /\ passes = 0

NextRank ==
    \/ FilterStep
    \/ SortStep

\* the filter and the ranker of one run
SpecRank == InitRank /\ [][NextRank]_vars

NextExtract ==
    \/ FullTextCall
    \/ StepNewspaper
    \/ StepTrafilatura
    \/ StepHtml

\* one call of fetch_full_text
SpecExtract == InitExtract /\ [][NextExtract]_vars

NextQuery ==
    \/ BuildQuery
    \/ BuildChunkQuery

\* one call of build_gdelt_query
SpecQuery == InitQuery /\ [][NextQuery]_vars

\* the provider request of a run whose answer holds at most one article
OneArticleFetch == ProviderFetch /\ Len(fetched') <= 1

NextPass ==
    \/ Invoke
    \/ Gate
    \/ OneArticleFetch
    \/ FilterStep
    \/ SortStep
    \/ SaveItem
    \/ RunEnd
    \/ SummarizeStart
    \/ SummarizePage
    \/ SummarizeEnd
    \/ Tick

\* summarize_news passes over the stores that fetch_news runs of one article
\* each leave behind
SpecPass == Init /\ [][NextPass]_vars

(***************************************************************************)
(* Properties                                                              *)
(***************************************************************************)
\* the greatest fetched_at over all Article rows (the table is not empty)
MaxFetchedAt == CHOOSE t \in {r.fetched_at : r \in articles} :
                    \A r \in articles : r.fetched_at <= t

\* the run at the gate is too close to the newest Article
TooRecent == articles # {} /\ now - MaxFetchedAt < FETCH_INTERVAL

\* the step in which the run at the gate takes its decision
GateStep == pc = "gate" /\ pc' # "gate"

\* C1: rate-limit gate. A run that finds an Article whose fetched_at is less
\* than FETCH_INTERVAL seconds old ends at once, having issued no request and
\* with both tables unchanged; a run that finds the store empty or the newest
\* Article at least FETCH_INTERVAL seconds old goes on to the provider
\* request, which is the next thing it does.
C1_RateLimitGate ==
    [][/\ GateStep =>
            IF TooRecent
            THEN /\ pc' = "idle"
                 /\ calls' = <<>>
                 /\ articles' = articles
                 /\ summaries' = summaries
            ELSE pc' = "fetch"
       /\ (pc = "fetch" /\ pc' # "fetch") =>
            /\ Len(calls') = 1
            /\ calls'[1].op = "provider"]_vars

\* a run was skipped although the store is not empty
C1_Witness ==
    /\ pc = "idle"
    /\ out = "Skipping fetch"
    /\ articles # {}
    /\ calls = <<>>

\* C2: a run that starts less than FETCH_INTERVAL seconds after the start of
\* the previous run that passed the gate is skipped.
C2_SkippedAfterAnyFetch ==
    [][(GateStep /\ lastProceed # NULL /\ now - lastProceed < FETCH_INTERVAL)
          => (pc' = "idle" /\ out' = "Skipping fetch")]_vars

\* the Article write of the candidate filtered[idx] succeeded in this step
ArticleWritten ==
    /\ pc = "save"
    /\ idx <= Len(filtered)
    /\ Len(calls') > Len(calls)
    /\ \E k \in (Len(calls) + 1)..Len(calls') :
          calls'[k].op = "article" /\ calls'[k].ok

\* the text handed to the Article write of this step
WrittenBody ==
    calls'[CHOOSE k \in (Len(calls) + 1)..Len(calls') : calls'[k].op = "article"].text

\* C3: upsert idempotence. There is at most one Article row per url; no step
\* changes the fetched_at (or the id) of an existing row; and after a
\* successful Article write the row of the candidate's url carries the
\* candidate's title, source, body text and parsed date.
C3_UpsertIdempotent ==
    /\ [](\A r \in articles : \A q \in articles : r.url = q.url => r = q)
    /\ [][\A r \in articles : \E q \in articles' :
              q.url = r.url /\ q.id = r.id /\ q.fetched_at = r.fetched_at]_vars
    /\ [][ArticleWritten =>
              \E q \in articles' :
                 /\ q.url = filtered[idx].url
                 /\ q.title = Prefix(filtered[idx].title, 300)
                 /\ q.source = filtered[idx].source
                 /\ q.snippet = WrittenBody
                 /\ q.published_at = parse_published_at(filtered[idx].published_at_raw)
                 /\ \A r \in articles' : r.url = q.url => r = q]_vars

\* a row inserted by an earlier run was written again by the current run, at
\* a later time, and kept its fetched_at
C3_Witness ==
    /\ pc = "save"
    /\ \E r \in articles :
          /\ r.fetched_at < now
          /\ r.title = <<"g", "d", "p">>
          /\ \E k \in 1..Len(calls) :
                calls[k].op = "article" /\ calls[k].ok /\ calls[k].url = r.url

\* the text returned by the extraction of this step, <<>> when there was none
ExtractedText ==
    IF \E k \in (Len(calls) + 1)..Len(calls') : calls'[k].op = "extract"
    THEN calls'[CHOOSE k \in (Len(calls) + 1)..Len(calls') : calls'[k].op = "extract"].text
    ELSE <<>>

\* the final body text of the candidate filtered[idx]
FinalBody ==
    IF word_count(Strip(filtered[idx].snippet)) >= MIN_ARTICLE_LENGTH
    THEN Strip(filtered[idx].snippet)
    ELSE ExtractedText

\* C4: content-length gate. A step of the save loop changes the Article or
\* the SummaryPage table only if the final body text of its candidate has at
\* least MIN_ARTICLE_LENGTH words.
C4_LengthGate ==
    [][(pc = "save" /\ idx <= Len(filtered)
          /\ (articles' # articles \/ summaries' # summaries))
         => word_count(FinalBody) >= MIN_ARTICLE_LENGTH]_vars

\* a candidate with a short snippet whose extraction gave a text that is not
\* empty but too short was dropped without a write
C4_Witness ==
    /\ pc = "save"
    /\ out = "SKIPPED saving article"
    /\ Len(calls) >= 3
    /\ calls[Len(calls)].op = "sleep"
    /\ calls[Len(calls) - 1].op = "extract"
    /\ calls[Len(calls) - 1].text # <<>>
    /\ word_count(calls[Len(calls) - 1].text) < MIN_ARTICLE_LENGTH
    /\ articles = {}

\* C5: after every successful Article upsert the SummaryPage of that Article
\* exists and is pending (summarized_at = NULL).
C5_SummaryPendingAfterUpsert ==
    [][ArticleWritten =>
          \E a \in articles' :
             /\ a.url = filtered[idx].url
             /\ \E p \in summaries' : p.article = a.id /\ p.summarized_at = NULL]_vars

\* C6: when no run is in progress every Article row has exactly one
\* SummaryPage row (each candidate was written whole or not at all).
C6_ArticleHasOneSummaryPage ==
    pc = "idle" =>
       \A a \in articles : Cardinality({p \in summaries : p.article = a.id}) = 1

\* the save loop has handled the whole list
LoopDone == pc = "save" /\ idx > Len(filtered)

\* C7: a failed store write does not end the batch. When the save loop is
\* over, every url of the ranked list was handled (dedupe, then extraction or
\* write), and every candidate whose two writes succeeded is in the store
\* with the body that was written and a pending SummaryPage.
C7_BatchContinues ==
    /\ pc = "save" => idx <= Len(filtered) + 1
    /\ LoopDone =>
         /\ seen = {filtered[i].url : i \in 1..Len(filtered)} \ {<<>>}
         /\ \A u \in seen : \E k \in 1..Len(calls) :
               calls[k].url = u /\ calls[k].op \in {"extract", "article"}
         /\ \A k \in 1..Len(calls) :
               (calls[k].op = "summary" /\ calls[k].ok) =>
                  \E a \in articles :
                     /\ a.url = calls[k].url
                     /\ a.snippet = calls[k].text
                     /\ \E p \in summaries :
                           p.article = a.id /\ p.summarized_at = NULL

\* a write failed for one candidate and a later candidate of the same run was
\* persisted
C7_Witness ==
    /\ LoopDone
    /\ \E k \in 1..Len(calls) : \E m \in 1..Len(calls) :
          /\ k < m
          /\ calls[k].op \in {"article", "summary"} /\ ~calls[k].ok
          /\ calls[m].op = "summary" /\ calls[m].ok
          /\ calls[m].url # calls[k].url
          /\ \E a \in articles : a.url = calls[m].url

\* the urls of the records of response number i of the call
UrlsOfResponse(i) ==
    {normalize_article(chunkLog[i].resp.items[j]).url :
        j \in 1..Len(chunkLog[i].resp.items)}

\* C8: partial-failure tolerance of fetch_articles. When it returns, one
\* request was issued for every chunk, in order, whichever requests failed,
\* and the result holds every url of every response that did not fail.
C8_ChunkFailureTolerated ==
    fpc = "returned" =>
       /\ Len(chunkLog) = Len(chunks)
       /\ Len(chunks) = 2
       /\ \A i \in 1..Len(chunkLog) :
             /\ chunkLog[i].chunk = chunks[i]
             /\ ~chunkLog[i].resp.err =>
                   UrlsOfResponse(i) \subseteq
                      {all_articles[k].url : k \in 1..Len(all_articles)}

\* the first request failed and the second one delivered records
C8_Witness ==
    /\ fpc = "returned"
    /\ Len(chunkLog) = 2
    /\ chunkLog[1].resp.err
    /\ ~chunkLog[2].resp.err
    /\ chunkLog[2].resp.items # <<>>
    /\ all_articles # <<>>

\* all raw items received so far, in chunk order, then in response order
RECURSIVE ItemsUpTo(_)
ItemsUpTo(n) ==
    IF n = 0 THEN <<>> ELSE ItemsUpTo(n - 1) \o chunkLog[n].resp.items

\* C9: cross-chunk dedupe. The result of fetch_articles never holds two
\* records with the same url, and each record is the normalisation of the
\* first raw item with its url, in chunk order, then in response order.
C9_FirstOccurrenceWins ==
    \E items \in {ItemsUpTo(Len(chunkLog))} :
       /\ \A i \in 1..Len(all_articles) : \A j \in 1..Len(all_articles) :
             all_articles[i].url = all_articles[j].url => i = j
       /\ \A k \in 1..Len(all_articles) :
             \E f \in 1..Len(items) :
                /\ normalize_article(items[f]).url = all_articles[k].url
                /\ \A g \in 1..(f - 1) :
                      normalize_article(items[g]).url # all_articles[k].url
                /\ all_articles[k] = normalize_article(items[f])

\* two chunks returned the same url with different titles and the first
\* title was kept
C9_Witness ==
    /\ fpc = "returned"
    /\ Len(chunkLog) = 2
    /\ chunkLog[1].resp.items = <<R1>>
    /\ chunkLog[2].resp.items = <<R2>>
    /\ Len(all_articles) = 1
    /\ all_articles[1].title = <<"O", "i", "l">>

\* the record's lowercased title + " " + snippet contains a keyword
MatchesKeyword(a) ==
    \E text \in {Lower(a.title \o <<" ">> \o a.snippet)} :
       \E k \in 1..Len(ECON_KEYWORDS) :
          \E at \in 1..Len(text) :
             /\ at + Len(ECON_KEYWORDS[k]) - 1 <= Len(text)
             /\ \A c \in 1..Len(ECON_KEYWORDS[k]) :
                   text[at + c - 1] = ECON_KEYWORDS[k][c]

\* the positions of the fetched list whose record matches a keyword
Matching == {i \in 1..Len(fetched) : MatchesKeyword(fetched[i])}

\* C10: keyword filter with fallback. When some fetched record matches a
\* keyword the ranked list holds exactly the matching records, in fetch
\* order; when none matches it holds the whole fetched list; it is never
\* empty for a fetched list that is not empty.
C10_KeywordFilterFallback ==
    pc = "sort" =>
       \E M \in {Matching} :
          /\ fetched # <<>>
          /\ ranked # <<>>
          /\ M # {} =>
                /\ Len(ranked) = Cardinality(M)
                /\ \A k \in 1..Len(ranked) :
                      \E i \in M :
                         /\ Cardinality({j \in M : j <= i}) = k
                         /\ ranked[k].data = fetched[i]
          /\ M = {} =>
                /\ Len(ranked) = Len(fetched)
                /\ \A k \in 1..Len(ranked) : ranked[k].data = fetched[k]

\* no fetched record matched a keyword and the whole list was ranked
C10_Witness ==
    /\ pc = "sort"
    /\ Matching = {}
    /\ Len(fetched) = 2
    /\ Len(ranked) = 2

\* the page with every exception replaced by the strategy finding nothing
Quiet(page) ==
    [np |-> IF page.np.kind = "exc" THEN None ELSE page.np,
     tf |-> IF page.tf.kind = "exc" THEN None ELSE page.tf,
     html |-> IF page.html.kind = "exc" THEN HtmlNoArticle(<<>>) ELSE page.html]

\* the url argument starts with the four characters "http"
LooksHttp(url) ==
    /\ Len(url) >= 4
    /\ url[1] = "h" /\ url[2] = "t" /\ url[3] = "t" /\ url[4] = "p"

\* C11: fetch_full_text never raises and returns a string. For a url that is
\* missing, empty or does not start with "http" it returns the empty string
\* and invokes no strategy (no network call); an exception inside a strategy
\* gives the same result as that strategy finding nothing.
C11_FullTextNeverRaises ==
    /\ xpc # "raised"
    /\ xpc = "returned" =>
          /\ DOMAIN xresult = 1..Len(xresult)
          /\ ~LooksHttp(xurl) => (xresult = <<>> /\ xtried = <<>>)
          /\ xresult = fetch_full_text(xurl, have, Quiet(xpage))

\* newspaper raised, trafilatura was too short and the page paragraphs gave
\* the text
C11_Witness ==
    /\ xpc = "returned"
    /\ LooksHttp(xurl)
    /\ have.np /\ xpage.np.kind = "exc"
    /\ xtried = <<"newspaper", "trafilatura", "html", "paragraphs">>
    /\ word_count(xresult) >= FULLTEXT_MIN_WORDS

\* C12: a SummaryPage has summarized_at set only if a model response was
\* obtained and saved for it; the pages whose text was too short or whose
\* model call failed are still pending.
C12_SummarizedOnlyOnSuccess ==
    \A p \in summaries :
       p.summarized_at # NULL =>
          (p.ai_summary = AI_RESPONSE /\ p.confidence = 85)

\* the step in which the provider request of the run is made
ProviderStep == pc = "fetch" /\ pc' # "fetch"

\* C13: total fetch failure is an empty, non-fatal outcome. When the provider
\* request failed or returned no article, the list of candidates is empty and
\* the run ends at once with its "nothing returned" line: no extraction, no
\* write, both tables unchanged.
C13_EmptyFetchEndsRun ==
    [][(ProviderStep /\ fetched' = <<>>) =>
          /\ pc' = "idle"
          /\ out' = "No articles returned by GDELT."
          /\ Len(calls') = 1
          /\ calls'[1].op = "provider"
          /\ articles' = articles
          /\ summaries' = summaries]_vars

\* a run whose provider request failed has ended, with rows of an earlier
\* run still in the store
C13_Witness ==
    /\ pc = "idle"
    /\ out = "No articles returned by GDELT."
    /\ Len(calls) = 1
    /\ calls[1].op = "provider"
    /\ ~calls[1].ok
    /\ articles # {}

\* a step of the save loop over the candidate filtered[idx]
SaveStep == pc = "save" /\ idx <= Len(filtered) /\ idx' # idx

\* the candidate filtered[idx] has no url, or an earlier candidate of the list
\* has its url
EmptyOrDuplicate ==
    \/ filtered[idx].url = <<>>
    \/ \E j \in 1..(idx - 1) : filtered[j].url = filtered[idx].url

\* C14: within-run dedupe. In one run no url is extracted twice or upserted
\* twice and no call is made for an empty url; the step of a candidate with
\* an empty url or with the url of an earlier candidate makes no call and no
\* write, and the step of the first candidate of a url makes its calls for
\* that url.
C14_WithinRunDedupe ==
    /\ [](\A k \in 1..Len(calls) : \A m \in 1..Len(calls) :
             (/\ calls[k].op \in {"extract", "article", "summary"}
              /\ calls[k].op = calls[m].op
              /\ calls[k].url = calls[m].url) => k = m)
    /\ [](\A k \in 1..Len(calls) :
             calls[k].op # "provider" => calls[k].url # <<>>)
    /\ [][SaveStep =>
             IF EmptyOrDuplicate
             THEN /\ calls' = calls
                  /\ articles' = articles
                  /\ summaries' = summaries
             ELSE /\ Len(calls') > Len(calls)
                  /\ \A k \in (Len(calls) + 1)..Len(calls') :
                        calls'[k].url = filtered[idx].url]_vars

\* the list held the same url twice, with different titles; the loop is over
\* and the url was written once, with the title of the first candidate
C14_Witness ==
    /\ LoopDone
    /\ Len(filtered) = 2
    /\ filtered[1].url = filtered[2].url
    /\ filtered[1].url # <<>>
    /\ filtered[1].title # filtered[2].title
    /\ Cardinality({k \in 1..Len(calls) : calls[k].op = "article"}) = 1
    /\ \E a \in articles :
          a.url = filtered[1].url /\ a.title = filtered[1].title

\* a step of a fetch_news run
FetchNewsStep == pc \in {"gate", "fetch", "filter", "sort", "save"}

\* the url of the Article that a SummaryPage row belongs to
UrlOfPage(p, arts) == (CHOOSE a \in arts : a.id = p.article).url

\* the urls whose Article write succeeded in this step
WrittenUrls == IF ArticleWritten THEN {filtered[idx].url} ELSE {}

\* C15: frame of the store under fetch_news. No step of a run deletes an
\* Article or a SummaryPage row, so the set of Article urls only grows; a
\* step changes or adds only rows of the url it persists, and every row of
\* another url is left as it was, fetched_at and summary state included.
C15_StoreFrame ==
    [][FetchNewsStep =>
          \E W \in {WrittenUrls} :
             /\ {a.url : a \in articles} \subseteq {a.url : a \in articles'}
             /\ \A a \in articles :
                   \E b \in articles' :
                      b.id = a.id /\ b.url = a.url /\ (a.url \notin W => b = a)
             /\ \A b \in articles' : b \notin articles => b.url \in W
             /\ \A p \in summaries :
                   \E q \in summaries' :
                      /\ q.id = p.id /\ q.article = p.article
                      /\ UrlOfPage(p, articles) \notin W => q = p
             /\ \A q \in summaries' :
                   q \notin summaries => UrlOfPage(q, articles') \in W]_vars

\* a later run persisted a second url and the rows of the first url, written
\* by an earlier run, are still there
C15_Witness ==
    /\ pc = "save"
    /\ \E a \in articles : \E b \in articles :
          /\ a.url # b.url
          /\ a.fetched_at < b.fetched_at
          /\ \E p \in summaries : p.article = a.id
          /\ \E k \in 1..Len(calls) :
                calls[k].op = "summary" /\ calls[k].ok /\ calls[k].url = b.url
          /\ \A k \in 1..Len(calls) : calls[k].url # a.url

\* the number of words of a text, counted at the ends of its words
WordsIn(text) ==
    Cardinality(UNION {{i \in 1..Len(t) :
                          /\ t[i] \notin {" ", "\n", "\t"}
                          /\ (i = Len(t) \/ t[i + 1] \in {" ", "\n", "\t"})}
                       : t \in {text}})

\* the place of entry i of ranked in the sorted list: after the entries with
\* more snippet words and after the earlier entries with as many
PlaceOf(W, i) ==
    1 + Cardinality({j \in 1..Len(ranked) :
                        W[j] > W[i] \/ (W[j] = W[i] /\ j < i)})

\* C16: ranker ordering and bound. The list handed to the save loop has
\* min(TOP_N, size of the ranked set) records; it holds the records of the
\* ranked set in descending order of snippet word count, records with the
\* same count in their fetch order, cut after the first TOP_N.
C16_RankerOrderAndBound ==
    [][(pc = "sort" /\ pc' = "save") =>
          \E W \in {[i \in 1..Len(ranked) |-> WordsIn(ranked[i].data.snippet)]} :
             /\ Len(filtered') = IF Len(ranked) < TOP_N THEN Len(ranked) ELSE TOP_N
             /\ \A i \in 1..Len(ranked) :
                   PlaceOf(W, i) <= TOP_N =>
                      filtered'[PlaceOf(W, i)] = ranked[i].data
             /\ \A k \in 1..(Len(filtered') - 1) :
                   WordsIn(filtered'[k].snippet) >= WordsIn(filtered'[k + 1].snippet)]_vars

\* three records were ranked, the last two with the same word count and more
\* words than the first: the list holds these two, in their fetch order
C16_Witness ==
    /\ pc = "save"
    /\ idx = 1
    /\ Len(ranked) = 3
    /\ ranked[1].score < ranked[2].score
    /\ ranked[2].score = ranked[3].score
    /\ ranked[2].data # ranked[3].data
    /\ filtered = <<ranked[2].data, ranked[3].data>>

\* the strategies of fetch_full_text in their order; "html" is the GET of the
\* page that the two paragraph strategies share
STRATEGIES == <<"newspaper", "trafilatura", "html", "article", "paragraphs">>

OrderOf(s) == CHOOSE i \in 1..Len(STRATEGIES) : STRATEGIES[i] = s

\* the strategy can be invoked on the page of the call
Available(s) ==
    IF s = "newspaper" THEN have.np
    ELSE IF s = "trafilatura" THEN have.tf
    ELSE IF s = "html" THEN TRUE
    ELSE IF s = "article" THEN xpage.html.kind = "html" /\ xpage.html.hasArticle
    ELSE xpage.html.kind = "html"

\* the text that the strategy finds on the page of the call
YieldOf(s) ==
    IF s = "newspaper"
    THEN IF have.np /\ xpage.np.kind = "text" THEN xpage.np.text ELSE <<>>
    ELSE IF s = "trafilatura"
    THEN IF have.tf /\ xpage.tf.kind = "text" THEN xpage.tf.text ELSE <<>>
    ELSE IF s = "article"
    THEN IF xpage.html.kind = "html" /\ xpage.html.hasArticle
         THEN JoinParagraphs(xpage.html.article) ELSE <<>>
    ELSE IF s = "paragraphs"
    THEN IF xpage.html.kind = "html" THEN JoinParagraphs(xpage.html.ps) ELSE <<>>
    ELSE <<>>

\* the strategies that find at least 100 words
Winners ==
    {STRATEGIES[i] : i \in {j \in 1..Len(STRATEGIES) :
                               WordsIn(YieldOf(STRATEGIES[j])) >= 100}}

\* C17: extraction fallback chain. The strategies are invoked in the order
\* newspaper, trafilatura, <article> paragraphs, all paragraphs, each at most
\* once, and an unavailable strategy is not invoked. For a valid url the
\* function returns the stripped text of the first strategy in that order
\* that finds at least 100 words, having invoked the available strategies up
\* to that one and none after it; when no strategy finds 100 words it has
\* invoked every available strategy and returns the empty string.
C17_FallbackChainOrder ==
    /\ \A i \in 1..Len(xtried) : \A j \in 1..Len(xtried) :
          i < j => OrderOf(xtried[i]) < OrderOf(xtried[j])
    /\ \A i \in 1..Len(xtried) : Available(xtried[i])
    /\ (xpc = "returned" /\ LooksHttp(xurl)) =>
          \E win \in {Winners} :
             IF win # {}
             THEN \E w \in win :
                     /\ \A v \in win : OrderOf(w) <= OrderOf(v)
                     /\ xresult = Strip(YieldOf(w))
                     /\ {xtried[i] : i \in 1..Len(xtried)} =
                           {STRATEGIES[i] : i \in {j \in 1..OrderOf(w) :
                                                      Available(STRATEGIES[j])}}
             ELSE /\ xresult = <<>>
                  /\ {xtried[i] : i \in 1..Len(xtried)} =
                        {STRATEGIES[i] : i \in {j \in 1..Len(STRATEGIES) :
                                                   Available(STRATEGIES[j])}}

\* newspaper is not installed, trafilatura found nothing and the <article>
\* paragraphs gave the text; the page paragraphs were not read
C17_Witness ==
    /\ xpc = "returned"
    /\ LooksHttp(xurl)
    /\ ~have.np
    /\ xtried = <<"trafilatura", "html", "article">>
    /\ WordsIn(xresult) >= 100
    /\ WordsIn(YieldOf("paragraphs")) >= 100

\* the calls made by this step, in order
NewCalls == SubSeq(calls', Len(calls) + 1, Len(calls'))

\* the texts handed to the calls of kind op made by this step
TextsOf(op, cs) == {cs[k].text : k \in {j \in 1..Len(cs) : cs[j].op = op}}

\* the number of calls of kind op in cs
CountOf(op, cs) == Cardinality({k \in 1..Len(cs) : cs[k].op = op})

\* C18: extraction when, and only when, the snippet is short. The step of a
\* candidate makes one extraction call if its stripped snippet has fewer than
\* MIN_ARTICLE_LENGTH words and none otherwise. A candidate with a long
\* enough snippet is written with that snippet as body. After an extraction
\* the candidate is written, with the extracted text as body, exactly when
\* that text has at least MIN_ARTICLE_LENGTH words; otherwise nothing is
\* written.
C18_ExtractionIffShort ==
    [][(SaveStep /\ ~EmptyOrDuplicate) =>
          \E provided \in {Strip(filtered[idx].snippet)} :
          \E cs \in {NewCalls} :
             IF WordsIn(provided) >= MIN_ARTICLE_LENGTH
             THEN /\ CountOf("extract", cs) = 0
                  /\ CountOf("article", cs) = 1
                  /\ TextsOf("article", cs) = {provided}
             ELSE /\ CountOf("extract", cs) = 1
                  /\ \E ext \in TextsOf("extract", cs) :
                        IF WordsIn(ext) >= MIN_ARTICLE_LENGTH
                        THEN /\ CountOf("article", cs) = 1
                             /\ TextsOf("article", cs) = {ext}
                        ELSE /\ CountOf("article", cs) = 0
                             /\ articles' = articles
                             /\ summaries' = summaries]_vars

\* a candidate with a short snippet was extracted once and persisted with
\* the extracted text as its body
C18_Witness ==
    /\ pc = "save"
    /\ \E k \in 1..Len(calls) : \E m \in 1..Len(calls) :
          /\ k < m
          /\ calls[k].op = "extract"
          /\ WordsIn(calls[k].text) >= MIN_ARTICLE_LENGTH
          /\ calls[m].op = "article" /\ calls[m].ok
          /\ calls[m].url = calls[k].url
          /\ calls[m].text = calls[k].text
          /\ \E a \in articles :
                a.url = calls[k].url /\ a.snippet = calls[k].text

\* C19: polite delay. In the calls of a run every extraction attempt, with
\* or without a text, is directly followed by one pause for the same
\* candidate, before its write and before the next candidate; there is no
\* other pause, so a pause lies between any two extraction attempts.
C19_PauseAfterExtraction ==
    /\ \A k \in 1..Len(calls) :
          calls[k].op = "extract" =>
             /\ k < Len(calls)
             /\ calls[k + 1].op = "sleep"
             /\ calls[k + 1].url = calls[k].url
    /\ \A k \in 1..Len(calls) :
          calls[k].op = "sleep" => (k > 1 /\ calls[k - 1].op = "extract")
    /\ \A k \in 1..Len(calls) : \A m \in 1..Len(calls) :
          (k < m /\ calls[k].op = "extract" /\ calls[m].op = "extract") =>
             \E j \in (k + 1)..(m - 1) : calls[j].op = "sleep"

\* one run made two extraction attempts, the first without a result, and
\* paused after each of them
C19_Witness ==
    /\ pc = "save"
    /\ \E k \in 1..Len(calls) : \E m \in 1..Len(calls) :
          /\ k < m
          /\ calls[k].op = "extract" /\ calls[k].text = <<>>
          /\ calls[k + 1].op = "sleep"
          /\ calls[m].op = "extract" /\ calls[m].url # calls[k].url
          /\ m < Len(calls)
          /\ calls[m + 1].op = "sleep"

\* the keyword list cut into consecutive chunks of two
KeywordChunks ==
    [c \in 1..((Len(ECON_KEYWORDS) + 1) \div 2) |->
        [i \in 1..(IF 2 * c <= Len(ECON_KEYWORDS) THEN 2 ELSE 1) |->
            ECON_KEYWORDS[2 * (c - 1) + i]]]

\* the provider requests made so far by the current run of fetch_news
ProviderRequests == SelectSeq(calls, LAMBDA c : c.op = "provider")

\* C20: chunked querying. A run of the ingestion command that has fetched its
\* list has issued one provider request per chunk of two keywords, in order,
\* each request carrying the keywords of its chunk.
C20_ChunkedQuerying ==
    pc \in {"filter", "sort", "save"} =>
       /\ Len(ProviderRequests) = Len(KeywordChunks)
       /\ \A i \in 1..Len(ProviderRequests) :
             ProviderRequests[i].keywords = KeywordChunks[i]

\* fetch_articles, which the command does not call, does query by chunks:
\* one request per chunk of two keywords, and the urls of its result are the
\* urls of all records received
ChunkedInFetchArticles ==
    fpc = "returned" =>
       /\ chunks = KeywordChunks
       /\ Len(chunkLog) = Len(chunks)
       /\ \A i \in 1..Len(chunkLog) : chunkLog[i].chunk = chunks[i]
       /\ {all_articles[k].url : k \in 1..Len(all_articles)} =
             UNION {UrlsOfResponse(i) : i \in 1..Len(chunkLog)}

\* the separator between two keywords of a query
OR_SEP == <<" ", "O", "R", " ">>

\* the places of s where the separator starts
SepPlaces(s) == {q \in 1..(Len(s) - 3) : SubSeq(s, q, q + 3) = OR_SEP}

\* s cut at every separator, the pieces in order
RECURSIVE SplitOr(_)
SplitOr(s) ==
    IF SepPlaces(s) = {} THEN <<s>>
    ELSE LET q == CHOOSE x \in SepPlaces(s) : \A y \in SepPlaces(s) : x <= y
         IN  <<SubSeq(s, 1, q - 1)>> \o SplitOr(SubSeq(s, q + 4, Len(s)))

\* what a URL query parameter holding e is read back as: "+" is a space, "%"
\* with two hexadecimal digits is the character of that byte
RECURSIVE UrlDecode(_)
UrlDecode(e) ==
    IF e = <<>> THEN <<>>
    ELSE IF Head(e) = "+" THEN <<" ">> \o UrlDecode(Tail(e))
    ELSE IF /\ Head(e) = "%"
            /\ Len(e) >= 3
            /\ \E c \in DOMAIN PERCENT : PERCENT[c] = SubSeq(e, 1, 3)
         THEN <<CHOOSE c \in DOMAIN PERCENT : PERCENT[c] = SubSeq(e, 1, 3)>>
                  \o UrlDecode(SubSeq(e, 4, Len(e)))
         ELSE <<Head(e)>> \o UrlDecode(Tail(e))

\* characters that may not stand for themselves in a URL query parameter
RESERVED == {" ", "&", "(", ")", "/"}

\* e is keyword k encoded for a URL query parameter
EncodingOf(e, k) ==
    /\ \A i \in 1..Len(e) : e[i] \notin RESERVED
    /\ UrlDecode(e) = k

\* C21: query builder. The string built from a keyword list, the whole list
\* or one chunk of it, is one opening parenthesis, the encoded keywords of the
\* list in their order separated by " OR ", and one closing parenthesis: as
\* many parts as keywords, part i the encoding of keyword i, nothing else.
C21_QueryForm ==
    qpc = "built" =>
        \E q \in {qresult} :
            /\ Len(q) >= 2
            /\ q[1] = "("
            /\ q[Len(q)] = ")"
            /\ \E parts \in {SplitOr(SubSeq(q, 2, Len(q) - 1))} :
                 IF qarg = <<>> THEN parts = << <<>> >>
                 ELSE /\ Len(parts) = Len(qarg)
                      /\ \A i \in 1..Len(qarg) : EncodingOf(parts[i], qarg[i])

\* a query was built from a chunk of two keywords of a list of three, one
\* keyword with an inner space and one with parentheses
C21_Witness ==
    /\ qpc = "built"
    /\ Len(qkeywords) = 3
    /\ qarg = << <<"o", " ", "p">>, <<"(", "x", ")">> >>
    /\ qresult = <<"(", "o", "+", "p", " ", "O", "R", " ",
                   "%", "2", "8", "x", "%", "2", "9", ")">>

\* the step in which a summarize_news pass returns: after its loop, or at
\* once when it finds nothing pending
PassEnds ==
    \/ pc = "summarize" /\ pc' = "idle"
    \/ pc = "idle" /\ passes' # passes /\ pc' = "idle"

\* the pages that were pending when the pass started
PendingAtStart == {r \in passStart : r.summarized_at = NULL}

\* the ids of the pages handled in the pass, in order
HandledIds == [i \in 1..Len(passLog) |-> passLog[i].id]

\* the confidence that goes with the path a page took, in hundredths
ConfidenceOf(line) ==
    CASE line = "SKIPPED! (short content" -> 20
      [] line = "Summary saved" -> 85
      [] line = "Failed" -> 10

\* the stripped body of the Article of page r
BodyOf(r) == Strip((CHOOSE a \in articles : a.id = r.article).snippet)

\* C22: a summarize_news pass drains the pending set. When the pass returns,
\* the pages handled are the pages that were pending at its start, each once;
\* each of them has summarized_at and model_version set and the confidence of
\* its path (0.2 short text, 0.85 model response, 0.1 model failure or empty
\* response), the short path being taken exactly for bodies under 300
\* characters; the pages already summarized at the start are as they were;
\* no page is pending.
C22_PassDrainsPending ==
    [][PassEnds =>
          /\ Len(passLog') = Cardinality(PendingAtStart')
          /\ {passLog'[i].id : i \in 1..Len(passLog')}
                 = {r.id : r \in PendingAtStart'}
          /\ \A i \in 1..Len(passLog') :
                \E r \in summaries' :
                   /\ r.id = passLog'[i].id
                   /\ r.summarized_at # NULL
                   /\ r.model_version = MODEL_NAME
                   /\ r.confidence = ConfidenceOf(passLog'[i].line)
                   /\ (passLog'[i].line = "SKIPPED! (short content")
                         <=> (Len(BodyOf(r)) < 300)
          /\ \A r \in passStart' : r.summarized_at # NULL => r \in summaries'
          /\ Cardinality(summaries') = Cardinality(passStart')
          /\ \A r \in summaries' : r.summarized_at # NULL]_vars

\* the second pass has returned: it handled one page, on the short-text path,
\* and left alone a page that the first pass had summarized from a model
\* response
C22_Witness ==
    /\ pc = "idle"
    /\ passes = 2
    /\ Len(passLog) = 1
    /\ passLog[1].line = "SKIPPED! (short content"
    /\ \E r \in passStart :
          /\ r.summarized_at # NULL
          /\ r.confidence = 85
          /\ r \in summaries
    /\ \E r \in summaries :
          /\ r.id = passLog[1].id
          /\ r.confidence = 20
          /\ r.summarized_at # NULL

====
